---- MODULE Spec2Model ----
(***************************************************************************)
(* The Five Dice game engine of src/app.py: the Player scorecard, and the  *)
(* FiveDiceGame object with its operations roll_dice, toggle_die_hold,     *)
(* calculate_score, score_category and get_winner.  One action per         *)
(* operation; the callers' arguments and the random draws are chosen       *)
(* from small sets.                                                        *)
(***************************************************************************)
EXTENDS Integers, Sequences, FiniteSets, TLC

VARIABLES
    dice,           \* FiveDiceGame.dice: five face values
    previous_dice,  \* FiveDiceGame.previous_dice: the faces before the last roll
    dice_held,      \* FiveDiceGame.dice_held: five booleans
    rolls_left,     \* FiveDiceGame.rolls_left
    current_player, \* FiveDiceGame.current_player: 0-based index into players
    players,        \* FiveDiceGame.players: sequence of [name, scorecard]
    game_over,      \* FiveDiceGame.game_over
    just_rolled,    \* FiveDiceGame.just_rolled
    result          \* what the most recent call returned, as text

engineVars == <<dice, previous_dice, dice_held, rolls_left, current_player,
                players, game_over, just_rolled>>

vars == <<dice, previous_dice, dice_held, rolls_left, current_player,
          players, game_over, just_rolled, result>>

(***************************************************************************)
(* Program constants.                                                      *)
(***************************************************************************)
NumDice == 5

NumFaces == 6

RollsPerTurn == 3

BonusThreshold == 63

BonusPoints == 35

FullHousePoints == 25

SmallStraightPoints == 30

LargeStraightPoints == 40

FiveDicePoints == 50

\* Optional[int]: None is the empty sequence, a stored score v is <<v>>.
None == <<>>

Some(v) == <<v>>

\* The keys of Player.scorecard, in the dict's insertion order.
CategoryOrder ==
    << "ones", "twos", "threes", "fours", "fives", "sixes",
       "three_of_a_kind", "four_of_a_kind", "full_house",
       "small_straight", "large_straight", "Five Dice", "chance" >>

Categories == {CategoryOrder[k] : k \in 1..Len(CategoryOrder)}

UpperCategories == <<"ones", "twos", "threes", "fours", "fives", "sixes">>

PlayerNames == <<"Player 1", "Player 2">>

EmptyScorecard == [c \in Categories |-> None]

NewPlayer(n) == [name |-> n, scorecard |-> EmptyScorecard]

(***************************************************************************)
(* Bounds of the model and the callers' inputs.                            *)
(***************************************************************************)
\* Spec: at most this many categories are recorded in one run.
MaxTurns == 3

\* SpecEnd: the number of categories each player has still to fill.
MaxOpen == 2

\* SpecHold: toggle_die_hold is called with this many indices below 0 and
\* this many above the last die.
IndexMargin == 1

\* The outcomes the random source may give for one roll of five dice;
\* die i takes r[i] when it is not held.
RollDraws == { <<2, 2, 3, 3, 3>>, <<1, 2, 3, 4, 5>> }

\* The arguments callers pass to toggle_die_hold: the first die, and one
\* index out of range on each side.
HoldIndices == {0 - 1, 0, 5}

\* The arguments callers pass to score_category in Spec: one upper category,
\* one fixed-score category and one sum category.
ScoreChoices == {"threes", "full_house", "chance"}

(***************************************************************************)
(* Helpers.                                                                *)
(***************************************************************************)
RECURSIVE SumTo(_, _)
SumTo(s, k) == IF k = 0 THEN 0 ELSE SumTo(s, k - 1) + s[k]

\* sum(s)
SumSeq(s) == SumTo(s, Len(s))

\* list.count(v)
Count(s, v) == Cardinality({i \in 1..Len(s) : s[i] = v})

MaxOf(S) == CHOOSE m \in S : \A x \in S : x <= m

\* A variant of IndexOf: the position counted from zero, as list.index gives
\* it, without the one the scoring adds.
IndexOf_ZeroBased(s, x) ==
    (CHOOSE i \in 1..Len(s) : s[i] = x /\ \A j \in 1..(i - 1) : s[j] # x) - 1

\* list.index(x) + 1: the position of x in s, counted from one
IndexOf(s, x) == CHOOSE i \in 1..Len(s) : s[i] = x /\ \A j \in 1..(i - 1) : s[j] # x

InSeq(s, x) == \E i \in 1..Len(s) : s[i] = x

(***************************************************************************)
(* Player                                                                  *)
(***************************************************************************)
\* The values of a scorecard that are not None, in key order of `cats`.
IsSet(v) == v # None

SetValues(card, cats) ==
    LET entries == [k \in 1..Len(cats) |-> card[cats[k]]]
        kept == SelectSeq(entries, IsSet)
    IN  [k \in 1..Len(kept) |-> kept[k][1]]

get_upper_section_total(p) == SumSeq(SetValues(p.scorecard, UpperCategories))

\* A variant of get_upper_section_bonus: the bonus needs more than the
\* threshold.
get_upper_section_bonus_Strict(p) ==
    IF get_upper_section_total(p) > BonusThreshold THEN BonusPoints ELSE 0

get_upper_section_bonus(p) ==
    IF get_upper_section_total(p) >= BonusThreshold THEN BonusPoints ELSE 0

get_total_score(p) ==
    SumSeq(SetValues(p.scorecard, CategoryOrder)) + get_upper_section_bonus(p)

(***************************************************************************)
(* FiveDiceGame.calculate_score                                            *)
(***************************************************************************)
dice_counts(d) == [i \in 1..NumFaces |-> Count(d, i)]

MaxCount(d) == MaxOf({dice_counts(d)[i] : i \in 1..NumFaces})

DiceSet(d) == {d[i] : i \in 1..Len(d)}

\* A variant of calculate_score: a full house is taken to be any roll of at
\* most two faces with one of them three times or more.
calculate_score_LooseFullHouse(category, d) ==
    IF InSeq(UpperCategories, category)
    THEN LET value == IndexOf(UpperCategories, category)
         IN  Count(d, value) * value
    ELSE IF category = "three_of_a_kind"
    THEN (IF MaxCount(d) >= 3 THEN SumSeq(d) ELSE 0)
    ELSE IF category = "four_of_a_kind"
    THEN (IF MaxCount(d) >= 4 THEN SumSeq(d) ELSE 0)
    ELSE IF category = "full_house"
    THEN (IF MaxCount(d) >= 3 /\ Cardinality(DiceSet(d)) <= 2
          THEN FullHousePoints ELSE 0)
    ELSE IF category = "small_straight"
    THEN LET straights == {{1, 2, 3, 4}, {2, 3, 4, 5}, {3, 4, 5, 6}}
         IN  IF \E straight \in straights : straight \subseteq DiceSet(d)
             THEN SmallStraightPoints ELSE 0
    ELSE IF category = "large_straight"
    THEN (IF DiceSet(d) \in {{1, 2, 3, 4, 5}, {2, 3, 4, 5, 6}}
          THEN LargeStraightPoints ELSE 0)
    ELSE IF category = "Five Dice"
    THEN (IF MaxCount(d) = 5 THEN FiveDicePoints ELSE 0)
    ELSE IF category = "chance"
    THEN SumSeq(d)
    ELSE 0

\* A variant of calculate_score: the small straight is tested like the large
\* one, by equality of sets.
calculate_score_ExactSmallStraight(category, d) ==
    IF InSeq(UpperCategories, category)
    THEN LET value == IndexOf(UpperCategories, category)
         IN  Count(d, value) * value
    ELSE IF category = "three_of_a_kind"
    THEN (IF MaxCount(d) >= 3 THEN SumSeq(d) ELSE 0)
    ELSE IF category = "four_of_a_kind"
    THEN (IF MaxCount(d) >= 4 THEN SumSeq(d) ELSE 0)
    ELSE IF category = "full_house"
    THEN LET counts_set == {dice_counts(d)[i] : i \in 1..NumFaces}
         IN  IF 3 \in counts_set /\ 2 \in counts_set THEN FullHousePoints ELSE 0
    ELSE IF category = "small_straight"
    THEN (IF DiceSet(d) \in {{1, 2, 3, 4}, {2, 3, 4, 5}, {3, 4, 5, 6}}
          THEN SmallStraightPoints ELSE 0)
    ELSE IF category = "large_straight"
    THEN (IF DiceSet(d) \in {{1, 2, 3, 4, 5}, {2, 3, 4, 5, 6}}
          THEN LargeStraightPoints ELSE 0)
    ELSE IF category = "Five Dice"
    THEN (IF MaxCount(d) = 5 THEN FiveDicePoints ELSE 0)
    ELSE IF category = "chance"
    THEN SumSeq(d)
    ELSE 0

calculate_score(category, d) ==
    IF InSeq(UpperCategories, category)
    THEN LET value == IndexOf(UpperCategories, category)
         IN  Count(d, value) * value
    ELSE IF category = "three_of_a_kind"
    THEN (IF MaxCount(d) >= 3 THEN SumSeq(d) ELSE 0)
    ELSE IF category = "four_of_a_kind"
    THEN (IF MaxCount(d) >= 4 THEN SumSeq(d) ELSE 0)
    ELSE IF category = "full_house"
    THEN LET counts_set == {dice_counts(d)[i] : i \in 1..NumFaces}
         IN  IF 3 \in counts_set /\ 2 \in counts_set THEN FullHousePoints ELSE 0
    ELSE IF category = "small_straight"
    THEN LET straights == {{1, 2, 3, 4}, {2, 3, 4, 5}, {3, 4, 5, 6}}
         IN  IF \E straight \in straights : straight \subseteq DiceSet(d)
             THEN SmallStraightPoints ELSE 0
    ELSE IF category = "large_straight"
    THEN (IF DiceSet(d) \in {{1, 2, 3, 4, 5}, {2, 3, 4, 5, 6}}
          THEN LargeStraightPoints ELSE 0)
    ELSE IF category = "Five Dice"
    THEN (IF MaxCount(d) = 5 THEN FiveDicePoints ELSE 0)
    ELSE IF category = "chance"
    THEN SumSeq(d)
    ELSE 0

(***************************************************************************)
(* FiveDiceGame: construction                                              *)
(***************************************************************************)
\* FiveDiceGame() followed by the installation of the two players.
Init ==
    /\ dice = [i \in 1..NumDice |-> 1]
    /\ previous_dice = [i \in 1..NumDice |-> 1]
    /\ dice_held = [i \in 1..NumDice |-> FALSE]
    /\ rolls_left = RollsPerTurn
    /\ current_player = 0
    /\ players = [k \in 1..Len(PlayerNames) |-> NewPlayer(PlayerNames[k])]
    /\ game_over = FALSE
    /\ just_rolled = FALSE
    /\ result = "None"

(***************************************************************************)
(* FiveDiceGame: operations                                                *)
(***************************************************************************)
\* Variants of roll_dice, each with one slip.
\* The held flags are not consulted: every die is rolled again.
roll_dice_IgnoreHeld ==
    /\ IF rolls_left > 0
       THEN \E r \in RollDraws :
                /\ previous_dice' = dice
                /\ dice' = [i \in 1..NumDice |-> r[i]]
                /\ rolls_left' = rolls_left - 1
                /\ just_rolled' = TRUE
                /\ UNCHANGED <<dice_held, current_player, players, game_over>>
       ELSE UNCHANGED engineVars
    /\ result' = "None"

\* The guard lets one roll too many through.
roll_dice_OffByOne ==
    /\ IF rolls_left >= 0
       THEN \E r \in RollDraws :
                /\ previous_dice' = dice
                /\ dice' = [i \in 1..NumDice |->
                               IF dice_held[i] THEN dice[i] ELSE r[i]]
                /\ rolls_left' = rolls_left - 1
                /\ just_rolled' = TRUE
                /\ UNCHANGED <<dice_held, current_player, players, game_over>>
       ELSE UNCHANGED engineVars
    /\ result' = "None"

roll_dice ==
    /\ IF rolls_left > 0
       THEN \E r \in RollDraws :
                /\ previous_dice' = dice
                /\ dice' = [i \in 1..NumDice |->
                               IF dice_held[i] THEN dice[i] ELSE r[i]]
                /\ rolls_left' = rolls_left - 1
                /\ just_rolled' = TRUE
                /\ UNCHANGED <<dice_held, current_player, players, game_over>>
       ELSE UNCHANGED engineVars
    /\ result' = "None"

\* A variant of toggle_die_hold: the lower bound of the index is not checked,
\* and a negative list index counts from the end.
toggle_die_hold_NoLowerBound(die_index) ==
    /\ IF die_index < NumDice
       THEN LET pos == IF die_index < 0 THEN NumDice + die_index + 1
                       ELSE die_index + 1
            IN  /\ dice_held' = [dice_held EXCEPT ![pos] = ~dice_held[pos]]
                /\ UNCHANGED <<dice, previous_dice, rolls_left, current_player,
                               players, game_over, just_rolled>>
       ELSE UNCHANGED engineVars
    /\ result' = "None"

toggle_die_hold(die_index) ==
    /\ IF 0 <= die_index /\ die_index < NumDice
       THEN /\ dice_held' = [dice_held EXCEPT ![die_index + 1] = ~dice_held[die_index + 1]]
            /\ UNCHANGED <<dice, previous_dice, rolls_left, current_player,
                           players, game_over, just_rolled>>
       ELSE UNCHANGED engineVars
    /\ result' = "None"

AllFilled(ps) ==
    \A k \in 1..Len(ps) : \A c \in Categories : ps[k].scorecard[c] # None

\* Variants of score_category, each with one slip.
\* The turn is advanced before the score is stored: it lands on the next card.
score_category_AdvanceFirst(category) ==
    LET cp == ((current_player + 1) % Len(players)) + 1
    IN  IF players[cp].scorecard[category] # None
        THEN /\ result' = "False"
             /\ UNCHANGED engineVars
        ELSE LET score == calculate_score(category, dice)
                 filled == [players EXCEPT ![cp].scorecard[category] = Some(score)]
             IN  /\ result' = "True"
                 /\ rolls_left' = RollsPerTurn
                 /\ dice_held' = [i \in 1..NumDice |-> FALSE]
                 /\ just_rolled' = FALSE
                 /\ current_player' = (current_player + 1) % Len(players)
                 /\ players' = filled
                 /\ game_over' = (IF AllFilled(filled) THEN TRUE ELSE game_over)
                 /\ UNCHANGED <<dice, previous_dice>>

\* The check for a filled category is missing.
score_category_Overwrite(category) ==
    LET cp == current_player + 1
        score == calculate_score(category, dice)
        filled == [players EXCEPT ![cp].scorecard[category] = Some(score)]
    IN  /\ result' = "True"
        /\ rolls_left' = RollsPerTurn
        /\ dice_held' = [i \in 1..NumDice |-> FALSE]
        /\ just_rolled' = FALSE
        /\ current_player' = (current_player + 1) % Len(players)
        /\ players' = filled
        /\ game_over' = (IF AllFilled(filled) THEN TRUE ELSE game_over)
        /\ UNCHANGED <<dice, previous_dice>>

\* The reset for the next turn is done before the check for a filled category.
score_category_ResetFirst(category) ==
    LET cp == current_player + 1
    IN  IF players[cp].scorecard[category] # None
        THEN /\ result' = "False"
             /\ rolls_left' = RollsPerTurn
             /\ dice_held' = [i \in 1..NumDice |-> FALSE]
             /\ just_rolled' = FALSE
             /\ UNCHANGED <<dice, previous_dice, current_player, players, game_over>>
        ELSE LET score == calculate_score(category, dice)
                 filled == [players EXCEPT ![cp].scorecard[category] = Some(score)]
             IN  /\ result' = "True"
                 /\ rolls_left' = RollsPerTurn
                 /\ dice_held' = [i \in 1..NumDice |-> FALSE]
                 /\ just_rolled' = FALSE
                 /\ current_player' = (current_player + 1) % Len(players)
                 /\ players' = filled
                 /\ game_over' = (IF AllFilled(filled) THEN TRUE ELSE game_over)
                 /\ UNCHANGED <<dice, previous_dice>>

\* The game is declared over as soon as the scoring player's own card is full.
score_category_OwnCardOnly(category) ==
    LET cp == current_player + 1
    IN  IF players[cp].scorecard[category] # None
        THEN /\ result' = "False"
             /\ UNCHANGED engineVars
        ELSE LET score == calculate_score(category, dice)
                 filled == [players EXCEPT ![cp].scorecard[category] = Some(score)]
             IN  /\ result' = "True"
                 /\ rolls_left' = RollsPerTurn
                 /\ dice_held' = [i \in 1..NumDice |-> FALSE]
                 /\ just_rolled' = FALSE
                 /\ current_player' = (current_player + 1) % Len(players)
                 /\ players' = filled
                 /\ game_over' = (IF \A c \in Categories : filled[cp].scorecard[c] # None
                                  THEN TRUE ELSE game_over)
                 /\ UNCHANGED <<dice, previous_dice>>

\* A refused call still passes the turn on.
score_category_AdvanceAlways(category) ==
    LET cp == current_player + 1
    IN  IF players[cp].scorecard[category] # None
        THEN /\ result' = "False"
             /\ current_player' = (current_player + 1) % Len(players)
             /\ UNCHANGED <<dice, previous_dice, dice_held, rolls_left,
                            players, game_over, just_rolled>>
        ELSE LET score == calculate_score(category, dice)
                 filled == [players EXCEPT ![cp].scorecard[category] = Some(score)]
             IN  /\ result' = "True"
                 /\ rolls_left' = RollsPerTurn
                 /\ dice_held' = [i \in 1..NumDice |-> FALSE]
                 /\ just_rolled' = FALSE
                 /\ current_player' = (current_player + 1) % Len(players)
                 /\ players' = filled
                 /\ game_over' = (IF AllFilled(filled) THEN TRUE ELSE game_over)
                 /\ UNCHANGED <<dice, previous_dice>>

\* A variant of score_category: the turn passes to the next index without
\* wrapping round to the first player.
score_category_NoWrap(category) ==
    LET cp == current_player + 1
    IN  IF players[cp].scorecard[category] # None
        THEN /\ result' = "False"
             /\ UNCHANGED engineVars
        ELSE LET score == calculate_score(category, dice)
                 filled == [players EXCEPT ![cp].scorecard[category] = Some(score)]
             IN  /\ result' = "True"
                 /\ rolls_left' = RollsPerTurn
                 /\ dice_held' = [i \in 1..NumDice |-> FALSE]
                 /\ just_rolled' = FALSE
                 /\ current_player' = current_player + 1
                 /\ players' = filled
                 /\ game_over' = (IF AllFilled(filled) THEN TRUE ELSE game_over)
                 /\ UNCHANGED <<dice, previous_dice>>

\* A variant of score_category: a successful call puts the dice back to
\* five ones for the next turn.
score_category_ClearDice(category) ==
    LET cp == current_player + 1
    IN  IF players[cp].scorecard[category] # None
        THEN /\ result' = "False"
             /\ UNCHANGED engineVars
        ELSE LET score == calculate_score(category, dice)
                 filled == [players EXCEPT ![cp].scorecard[category] = Some(score)]
             IN  /\ result' = "True"
                 /\ rolls_left' = RollsPerTurn
                 /\ dice_held' = [i \in 1..NumDice |-> FALSE]
                 /\ just_rolled' = FALSE
                 /\ current_player' = (current_player + 1) % Len(players)
                 /\ players' = filled
                 /\ game_over' = (IF AllFilled(filled) THEN TRUE ELSE game_over)
                 /\ dice' = [i \in 1..NumDice |-> 1]
                 /\ UNCHANGED previous_dice

score_category(category) ==
    LET cp == current_player + 1
    IN  IF players[cp].scorecard[category] # None
        THEN /\ result' = "False"
             /\ UNCHANGED engineVars
        ELSE LET score == calculate_score(category, dice)
                 filled == [players EXCEPT ![cp].scorecard[category] = Some(score)]
             IN  /\ result' = "True"
                 /\ rolls_left' = RollsPerTurn
                 /\ dice_held' = [i \in 1..NumDice |-> FALSE]
                 /\ just_rolled' = FALSE
                 /\ current_player' = (current_player + 1) % Len(players)
                 /\ players' = filled
                 /\ game_over' = (IF AllFilled(filled) THEN TRUE ELSE game_over)
                 /\ UNCHANGED <<dice, previous_dice>>

\* A variant of WinnerIndex: min where max was meant.
WinnerIndex_Min ==
    LET key == [k \in 1..Len(players) |-> get_total_score(players[k])]
    IN  CHOOSE k \in 1..Len(players) :
            /\ \A j \in 1..Len(players) : key[k] <= key[j]
            /\ \A j \in 1..(k - 1) : key[k] < key[j]

\* max(players, key=get_total_score): the first player with the greatest total.
WinnerIndex ==
    LET key == [k \in 1..Len(players) |-> get_total_score(players[k])]
    IN  CHOOSE k \in 1..Len(players) :
            /\ \A j \in 1..Len(players) : key[j] <= key[k]
            /\ \A j \in 1..(k - 1) : key[j] < key[k]

\* The player get_winner returns, by name; "None" while the game is on.
winner == IF ~game_over THEN "None" ELSE players[WinnerIndex].name

get_winner ==
    /\ UNCHANGED engineVars
    /\ result' = winner

(***************************************************************************)
(* Specifications                                                          *)
(***************************************************************************)
\* The number of categories recorded so far, over all players.
TurnsTaken ==
    Cardinality({<<k, c>> \in (1..Len(players)) \X Categories :
                    players[k].scorecard[c] # None})

ActiveFilled(c) == players[current_player + 1].scorecard[c] # None

Next ==
    \/ roll_dice
    \/ \E i \in HoldIndices : toggle_die_hold(i)
    \/ \E c \in ScoreChoices :
          /\ ActiveFilled(c) \/ TurnsTaken < MaxTurns
          /\ score_category(c)
    \/ get_winner

Spec == Init /\ [][Next]_vars

\* A game near its end: every roll so far came up all ones, and each player
\* has recorded every category but the last MaxOpen ones, in scorecard order.
AllOnes == [i \in 1..NumDice |-> 1]

OpenCategories ==
    {CategoryOrder[k] : k \in (Len(CategoryOrder) - MaxOpen + 1)..Len(CategoryOrder)}

LateScorecard ==
    [c \in Categories |->
        IF c \in OpenCategories THEN None ELSE Some(calculate_score(c, AllOnes))]

InitEnd ==
    /\ dice = AllOnes
    /\ previous_dice = AllOnes
    /\ dice_held = [i \in 1..NumDice |-> FALSE]
    /\ rolls_left = RollsPerTurn
    /\ current_player = 0
    /\ players = [k \in 1..Len(PlayerNames) |->
                     [name |-> PlayerNames[k], scorecard |-> LateScorecard]]
    /\ game_over = FALSE
    /\ just_rolled = FALSE
    /\ result = "True"

NextEnd ==
    \/ roll_dice
    \/ \E i \in HoldIndices : toggle_die_hold(i)
    \/ \E c \in Categories : score_category(c)
    \/ get_winner

SpecEnd == InitEnd /\ [][NextEnd]_vars

\* The calls the page makes: each widget of main() is offered only in the
\* states its render function allows.
NextPage ==
    \/ /\ ~game_over
       /\ rolls_left > 0
       /\ roll_dice
    \/ /\ ~game_over
       /\ rolls_left # RollsPerTurn
       /\ \E i \in HoldIndices \cap (0..(NumDice - 1)) : toggle_die_hold(i)
    \/ /\ ~game_over
       /\ rolls_left # RollsPerTurn
       /\ \E c \in Categories : ~ActiveFilled(c) /\ score_category(c)
    \/ /\ game_over
       /\ get_winner

SpecEndPage == InitEnd /\ [][NextPage]_vars

\* Every die index, and IndexMargin indices out of range on each side.
AllHoldIndices == (0 - IndexMargin)..(NumDice - 1 + IndexMargin)

\* The first turn of a fresh game, with every die open to holding.
NextHold ==
    \/ roll_dice
    \/ \E i \in AllHoldIndices : toggle_die_hold(i)
    \/ get_winner

SpecHold == Init /\ [][NextHold]_vars

\* Every outcome of rolling five dice.
AllDice == [1..NumDice -> 1..NumFaces]

\* A fresh game after its first roll_dice, whatever the five draws were.
InitScore ==
    /\ dice \in AllDice
    /\ previous_dice = AllOnes
    /\ dice_held = [i \in 1..NumDice |-> FALSE]
    /\ rolls_left = RollsPerTurn - 1
    /\ current_player = 0
    /\ players = [k \in 1..Len(PlayerNames) |-> NewPlayer(PlayerNames[k])]
    /\ game_over = FALSE
    /\ just_rolled = TRUE
    /\ result = "None"

\* The first player records the roll under any one category.
NextScore ==
    \E c \in Categories :
        /\ TurnsTaken = 0
        /\ score_category(c)

SpecScore == InitScore /\ [][NextScore]_vars

\* Rolls of k ones and 5 - k sixes.
CardDice == {[i \in 1..NumDice |-> IF i <= k THEN 1 ELSE 6] : k \in 0..NumDice}

\* A card in mid game: ones is open, the upper categories of U hold three
\* dice of their face, the other upper categories are open, and the lower
\* categories hold what score_category records for five ones.
MidScorecard(U) ==
    [c \in Categories |->
        IF c = "ones" THEN None
        ELSE IF c \in U THEN Some(3 * IndexOf(UpperCategories, c))
        ELSE IF InSeq(UpperCategories, c) THEN None
        ELSE Some(calculate_score(c, AllOnes))]

\* Both players have filled the same categories and the first player has
\* just rolled.
InitCard ==
    /\ dice \in CardDice
    /\ previous_dice = AllOnes
    /\ dice_held = [i \in 1..NumDice |-> FALSE]
    /\ rolls_left = RollsPerTurn - 1
    /\ current_player = 0
    /\ \E U \in SUBSET {"twos", "threes", "fours", "fives", "sixes"} :
          players = [k \in 1..Len(PlayerNames) |->
                        [name |-> PlayerNames[k], scorecard |-> MidScorecard(U)]]
    /\ game_over = FALSE
    /\ just_rolled = TRUE
    /\ result = "None"

\* The players fill their cards with the dice on the table.
NextCard ==
    \/ \E c \in Categories : score_category(c)
    \/ get_winner

SpecCard == InitCard /\ [][NextCard]_vars

\* The number of turns of a game in which the players roll; in the later
\* turns they record the dice that are on the table.
RollTurns == 2

\* The first category in card order that the active player has not filled,
\* or "ones" when the card is full.
FirstOpen ==
    LET card == players[current_player + 1].scorecard
        open == {i \in 1..Len(CategoryOrder) : card[CategoryOrder[i]] = None}
    IN  IF open = {} THEN "ones"
        ELSE CategoryOrder[CHOOSE i \in open : \A j \in open : i <= j]

\* A whole game from the first call to the last: the players fill their
\* cards in card order, and may ask again for "ones".
NextGame ==
    \/ /\ TurnsTaken < RollTurns
       /\ roll_dice
    \/ \E i \in HoldIndices : toggle_die_hold(i)
    \/ \E c \in {FirstOpen, "ones"} : score_category(c)
    \/ get_winner

SpecGame == Init /\ [][NextGame]_vars

\* A player who has an open category records it.
ScoreOpen == \E c \in {FirstOpen} : ~ActiveFilled(c) /\ score_category(c)

\* The players keep taking their turns.
SpecGameFair == SpecGame /\ WF_vars(ScoreOpen)

(***************************************************************************)
(* Properties                                                              *)
(***************************************************************************)
Active == current_player + 1

NoneHeld == [i \in 1..NumDice |-> FALSE]

\* C1: a successful score_category(c) stores calculate_score(c, dice) under c
\* in the active player's scorecard, clears the five held flags, sets
\* rolls_left to 3 and moves current_player to the next player (wrapping);
\* no other scorecard entry changes.
C1_ScoreCategoryEffect ==
    [][\A c \in Categories :
          (~ActiveFilled(c) /\ score_category(c)) =>
             /\ players'[Active].scorecard[c] = Some(calculate_score(c, dice))
             /\ dice_held' = NoneHeld
             /\ rolls_left' = RollsPerTurn
             /\ current_player' = (current_player + 1) % Len(players)
             /\ Len(players') = Len(players)
             /\ \A k \in 1..Len(players) : \A c2 \in Categories :
                   (k # Active \/ c2 # c) =>
                      players'[k].scorecard[c2] = players[k].scorecard[c2]
             /\ result' = "True"]_vars

\* Player 1 rolled <<2,2,3,3,3>> and recorded it as chance.
C1_Witness ==
    /\ result = "True"
    /\ players[1].scorecard["chance"] = Some(13)
    /\ dice = <<2, 2, 3, 3, 3>>
    /\ current_player = 1
    /\ rolls_left = RollsPerTurn
    /\ dice_held = NoneHeld

\* C2: a score_category call made while rolls_left = 3 (before the first roll
\* of the turn) records nothing and changes no state.
C2_NoScoreBeforeRoll ==
    [][\A c \in Categories :
          (rolls_left = RollsPerTurn /\ score_category(c)) =>
             UNCHANGED engineVars]_vars

\* C3: a scorecard entry that is set keeps its value in every later state.
C3_FillOnce ==
    [][\A k \in 1..Len(players) : \A c \in Categories :
          players[k].scorecard[c] # None =>
             /\ Len(players') = Len(players)
             /\ players'[k].scorecard[c] = players[k].scorecard[c]]_vars

\* Player 1 is active again, has chance recorded, and the last call, a
\* score_category, was refused.
C3_Witness ==
    /\ result = "False"
    /\ current_player = 0
    /\ players[1].scorecard["chance"] # None
    /\ rolls_left < RollsPerTurn

\* C4: score_category(c) on a category the active player has filled returns
\* False and leaves the whole engine state as it was.
C4_FilledRejected ==
    [][\A c \in Categories :
          (ActiveFilled(c) /\ score_category(c)) =>
             /\ result' = "False"
             /\ UNCHANGED engineVars]_vars

\* A refused score_category in the middle of a turn, with a die held.
C4_Witness ==
    /\ result = "False"
    /\ rolls_left = 1
    /\ dice_held[1]
    /\ \E c \in Categories : ActiveFilled(c)

\* C5: game_over is true exactly when every player's scorecard has all
\* thirteen categories set, and once true it stays true.
C5_FinishedIffAllFilled ==
    /\ [](game_over <=> AllFilled(players))
    /\ [][game_over => game_over']_vars

\* The game has ended: the last open category was just recorded.
C5_Witness ==
    /\ game_over
    /\ AllFilled(players)
    /\ result = "True"
    /\ current_player = 0

\* The greatest total over the players, and the names of those who have it.
TopTotal == MaxOf({get_total_score(players[k]) : k \in 1..Len(players)})

TopScorers ==
    {players[k].name : k \in {j \in 1..Len(players) :
                                get_total_score(players[j]) = TopTotal}}

\* The players get_winner reports: none, or the single one it returns.
Reported == IF winner = "None" THEN {} ELSE {winner}

\* C6: in a finished game get_winner reports every player whose total is
\* the greatest, so both players when their totals tie.
C6_TieReportsAll ==
    game_over => Reported = TopScorers

PlayerNameSet == {PlayerNames[k] : k \in 1..Len(PlayerNames)}

\* C7: get_winner returns None while game_over is false, and in a finished
\* game a player whose total is at least every player's total; a call that
\* returns a player is made in a finished game and changes no engine state.
C7_WinnerIsTopScorer ==
    /\ [](~game_over => winner = "None")
    /\ [](game_over => \E k \in 1..Len(players) :
                          /\ winner = players[k].name
                          /\ \A j \in 1..Len(players) :
                                get_total_score(players[j]) <= get_total_score(players[k]))
    /\ [][result' \in PlayerNameSet =>
             (game_over /\ result' = winner /\ UNCHANGED engineVars)]_vars

\* get_winner was called in a finished game and returned the second player,
\* whose total is strictly the greater.
C7_Witness ==
    /\ game_over
    /\ result = "Player 2"
    /\ get_total_score(players[2]) > get_total_score(players[1])

\* C8: roll_dice with rolls_left > 0 keeps every held die, gives every other
\* die a face in 1..6, saves the faces before the roll in previous_dice,
\* takes one from rolls_left, and leaves the held flags, current_player,
\* game_over and the scorecards alone.
C8_RollEffect ==
    [][(rolls_left > 0 /\ roll_dice) =>
          /\ \A i \in 1..NumDice : dice_held[i] => dice'[i] = dice[i]
          /\ \A i \in 1..NumDice : ~dice_held[i] => dice'[i] \in 1..NumFaces
          /\ Len(dice') = NumDice
          /\ previous_dice' = dice
          /\ rolls_left' = rolls_left - 1
          /\ UNCHANGED <<dice_held, current_player, game_over, players>>]_vars

\* The first die, a 1 from the roll <<1,2,3,4,5>>, was held through the roll
\* <<2,2,3,3,3>>.
C8_Witness ==
    /\ dice_held[1]
    /\ previous_dice = <<1, 2, 3, 4, 5>>
    /\ dice = <<1, 2, 3, 3, 3>>
    /\ rolls_left = 1

\* C9: roll_dice with rolls_left = 0 changes no engine state; and the dice
\* change only in a step that takes one of the at most three rolls of the
\* turn from rolls_left, which stays within 0..3.
C9_NoRollsLeftNoOp ==
    /\ [](rolls_left \in 0..RollsPerTurn)
    /\ [][/\ (rolls_left = 0 /\ roll_dice) => UNCHANGED engineVars
          /\ dice' # dice => (rolls_left > 0 /\ rolls_left' = rolls_left - 1)]_vars

\* All three rolls of a turn are used; a fourth roll_dice leaves this state.
C9_Witness ==
    /\ rolls_left = 0
    /\ just_rolled
    /\ result = "None"
    /\ dice = <<2, 2, 3, 3, 3>>
    /\ previous_dice = <<1, 2, 3, 4, 5>>

\* A category of the active player is recorded in this step.
Recorded ==
    \E c \in Categories :
        /\ players[Active].scorecard[c] = None
        /\ players'[Active].scorecard[c] # None

\* C10: in every step rolls_left stays, goes down by one (a roll_dice), or
\* becomes 3; it goes from below 3 to 3 only in a step that records a
\* category for the active player, never in a roll_dice or toggle_die_hold.
C10_RollsLeftSteps ==
    [][/\ \/ rolls_left' = rolls_left
          \/ rolls_left' = rolls_left - 1 /\ roll_dice
          \/ rolls_left' = RollsPerTurn
       /\ (rolls_left < RollsPerTurn /\ rolls_left' = RollsPerTurn) =>
             /\ Recorded
             /\ \E c \in Categories : ~ActiveFilled(c) /\ score_category(c)
             /\ ~roll_dice
             /\ \A i \in HoldIndices : ~toggle_die_hold(i)]_vars

\* The second player's turn begins: the first rolled twice, then recorded.
C10_Witness ==
    /\ rolls_left = RollsPerTurn
    /\ current_player = 1
    /\ previous_dice = <<1, 2, 3, 4, 5>>
    /\ dice = <<2, 2, 3, 3, 3>>
    /\ TurnsTaken = 1

\* C11: in every reachable state, rolls_left = 3 implies that none of the
\* five dice is held.
C11_NoHoldBeforeRoll ==
    rolls_left = RollsPerTurn => dice_held = NoneHeld


\* C12: current_player changes only in a successful score_category step,
\* where it becomes (old + 1) mod the number of players; roll_dice,
\* toggle_die_hold and a refused score_category leave it unchanged.
C12_TurnAdvancesOnScoreOnly ==
    [][/\ current_player' # current_player =>
             /\ Recorded
             /\ \E c \in Categories : ~ActiveFilled(c) /\ score_category(c)
             /\ current_player' = (current_player + 1) % Len(players)
       /\ roll_dice => current_player' = current_player
       /\ \A i \in HoldIndices :
             toggle_die_hold(i) => current_player' = current_player
       /\ \A c \in Categories :
             (ActiveFilled(c) /\ score_category(c)) =>
                current_player' = current_player]_vars

\* The second player has rolled, held a die and had a score refused after
\* both players recorded once and the first recorded again: the turn moved
\* with each record and with nothing else.
C12_Witness ==
    /\ TurnsTaken = 3
    /\ current_player = 1
    /\ result = "False"
    /\ dice_held[1]
    /\ rolls_left < RollsPerTurn

\* C13: once game_over is true no operation changes the dice, previous_dice,
\* the held flags, rolls_left, current_player or any scorecard.
C13_FinishedIsTerminal ==
    [][game_over =>
          UNCHANGED <<dice, previous_dice, dice_held, rolls_left,
                      current_player, players>>]_vars

\* C14: toggle_die_hold(i) with 0 <= i < 5 flips dice_held[i] and nothing
\* else; with i outside that range, negative i included, it changes no
\* engine state.
C14_ToggleFlipsOne ==
    [][\A i \in AllHoldIndices :
          toggle_die_hold(i) =>
             IF 0 <= i /\ i < NumDice
             THEN /\ dice_held'[i + 1] = ~dice_held[i + 1]
                  /\ \A j \in 1..NumDice :
                        j # i + 1 => dice_held'[j] = dice_held[j]
                  /\ DOMAIN dice_held' = 1..NumDice
                  /\ UNCHANGED <<dice, previous_dice, rolls_left,
                                 current_player, game_over, players>>
             ELSE UNCHANGED engineVars]_vars

\* After the first roll the third and the fifth die are held, the others not.
C14_Witness ==
    /\ dice_held = <<FALSE, FALSE, TRUE, FALSE, TRUE>>
    /\ rolls_left = 2
    /\ dice = <<1, 2, 3, 4, 5>>

\* The number of dice of d that show face f.
Showing(d, f) == Cardinality({i \in 1..NumDice : d[i] = f})

\* The score the first player has recorded under c, or the preview of it.
ScoredOrPreview(c) ==
    IF players[1].scorecard[c] = None THEN calculate_score(c, dice)
    ELSE players[1].scorecard[c][1]

\* C15: for every roll, full_house scores 25 exactly when one face shows
\* three times and another face twice, and 0 otherwise; five of a kind
\* scores 0.
C15_FullHouse ==
    /\ ScoredOrPreview("full_house") =
          (IF \E a \in 1..NumFaces : \E b \in (1..NumFaces) \ {a} :
                 Showing(dice, a) = 3 /\ Showing(dice, b) = 2
           THEN 25 ELSE 0)
    /\ calculate_score("full_house", dice) = ScoredOrPreview("full_house")
    /\ (\E a \in 1..NumFaces : Showing(dice, a) = 5) =>
          calculate_score("full_house", dice) = 0

\* Five threes were rolled and recorded as a full house worth nothing.
C15_Witness ==
    /\ dice = <<3, 3, 3, 3, 3>>
    /\ players[1].scorecard["full_house"] = Some(0)
    /\ result = "True"

\* The faces that appear among the dice d.
Faces(d) == {f \in 1..NumFaces : Showing(d, f) >= 1}

\* C16: for every roll, small_straight scores 30 exactly when the faces
\* include 1-4, 2-5 or 3-6 and 0 otherwise; large_straight scores 40 exactly
\* when the faces are 1-5 or 2-6 and 0 otherwise; a roll worth 40 as a large
\* straight is worth 30 as a small one, and 1,2,3,4,4 is worth 30 and 0.
C16_Straights ==
    /\ ScoredOrPreview("small_straight") =
          (IF \E lo \in 1..3 : lo..(lo + 3) \subseteq Faces(dice)
           THEN 30 ELSE 0)
    /\ ScoredOrPreview("large_straight") =
          (IF \E lo \in 1..2 : Faces(dice) = lo..(lo + 4)
           THEN 40 ELSE 0)
    /\ calculate_score("large_straight", dice) = 40 =>
          calculate_score("small_straight", dice) = 30
    /\ dice = <<1, 2, 3, 4, 4>> =>
          /\ calculate_score("small_straight", dice) = 30
          /\ calculate_score("large_straight", dice) = 0

\* 1,2,3,4,4 was rolled and recorded as a small straight worth 30.
C16_Witness ==
    /\ dice = <<1, 2, 3, 4, 4>>
    /\ players[1].scorecard["small_straight"] = Some(30)
    /\ calculate_score("large_straight", dice) = 0
    /\ result = "True"

\* The sum of the dice d, face by face.
FaceSum(d) == SumTo([f \in 1..NumFaces |-> f * Showing(d, f)], NumFaces)

\* The face an upper category counts.
UpperFace(c) ==
    CASE c = "ones" -> 1 [] c = "twos" -> 2 [] c = "threes" -> 3
      [] c = "fours" -> 4 [] c = "fives" -> 5 [] c = "sixes" -> 6

\* C18: for every roll and each of the 13 categories the score is in the
\* category's range: an upper category is its face times the number of dice
\* showing it; three and four of a kind are 0 or the sum of the dice; full
\* house is 0 or 25, small straight 0 or 30, large straight 0 or 40; five of
\* a kind is 50 exactly when all dice are equal and 0 otherwise; chance is
\* the sum of the dice, at most 30.
C18_ScoreRanges ==
    \A c \in Categories :
        LET v == ScoredOrPreview(c)
        IN  /\ c \in {"ones", "twos", "threes", "fours", "fives", "sixes"} =>
                  v = UpperFace(c) * Showing(dice, UpperFace(c))
            /\ c \in {"three_of_a_kind", "four_of_a_kind"} =>
                  v \in {0, FaceSum(dice)}
            /\ c = "full_house" => v \in {0, 25}
            /\ c = "small_straight" => v \in {0, 30}
            /\ c = "large_straight" => v \in {0, 40}
            /\ c = "Five Dice" =>
                  v = (IF \E f \in 1..NumFaces : Showing(dice, f) = 5
                       THEN 50 ELSE 0)
            /\ c = "chance" => v = FaceSum(dice) /\ v \in 0..30

\* Five sixes were rolled and recorded under sixes for 30 points.
C18_Witness ==
    /\ dice = <<6, 6, 6, 6, 6>>
    /\ players[1].scorecard["sixes"] = Some(30)
    /\ calculate_score("Five Dice", dice) = 50
    /\ calculate_score("chance", dice) = 30

\* The value a card holds under c, an open category counting nothing.
Val(p, c) == IF p.scorecard[c] = None THEN 0 ELSE p.scorecard[c][1]

\* The upper section of a card, added up category by category.
UpperSum(p) ==
    Val(p, "ones") + Val(p, "twos") + Val(p, "threes")
        + Val(p, "fours") + Val(p, "fives") + Val(p, "sixes")

\* The lower section of a card, added up category by category.
LowerSum(p) ==
    Val(p, "three_of_a_kind") + Val(p, "four_of_a_kind") + Val(p, "full_house")
        + Val(p, "small_straight") + Val(p, "large_straight")
        + Val(p, "Five Dice") + Val(p, "chance")

\* C17: for every card, the upper total is the sum of the set upper
\* categories, the bonus is 35 from an upper total of 63 on and 0 up to 62,
\* and the total is the sum of all set categories plus the bonus.
C17_CardTotals ==
    \A k \in 1..Len(players) :
        LET p == players[k]
        IN  /\ get_upper_section_total(p) = UpperSum(p)
            /\ UpperSum(p) >= 63 => get_upper_section_bonus(p) = 35
            /\ UpperSum(p) <= 62 => get_upper_section_bonus(p) = 0
            /\ get_total_score(p) =
                  UpperSum(p) + LowerSum(p) + get_upper_section_bonus(p)

\* A player has just recorded the ones that bring the upper section to
\* exactly 63, and the bonus is counted in the total.
C17_Witness ==
    /\ result = "True"
    /\ \E k \in 1..Len(players) :
          /\ players[k].scorecard["ones"] = Some(3)
          /\ get_upper_section_total(players[k]) = 63
          /\ get_upper_section_bonus(players[k]) = 35
          /\ get_total_score(players[k]) = 63 + 35 + LowerSum(players[k])

\* C19: in every reachable state dice and previous_dice are five values in
\* 1..6, dice_held is five booleans, rolls_left is in 0..3, current_player
\* is an index into the player list, and the player list has the size it
\* had when the game started.
C19_TypeInvariant ==
    /\ DOMAIN dice = 1..5
    /\ \A i \in DOMAIN dice : dice[i] \in 1..6
    /\ DOMAIN previous_dice = 1..5
    /\ \A i \in DOMAIN previous_dice : previous_dice[i] \in 1..6
    /\ DOMAIN dice_held = 1..5
    /\ \A i \in DOMAIN dice_held : dice_held[i] \in BOOLEAN
    /\ rolls_left \in 0..3
    /\ current_player \in 0..(Len(players) - 1)
    /\ Len(players) = Len(PlayerNames)

\* The turn has come round to the first player again, who has used all
\* three rolls while holding a die.
C19_Witness ==
    /\ current_player = 0
    /\ players[2].scorecard # EmptyScorecard
    /\ rolls_left = 0
    /\ dice_held[1]
    /\ dice # previous_dice

\* The number of categories player k has filled.
FilledCount(k) == Cardinality({c \in Categories : players[k].scorecard[c] # None})

\* C20: in a two-player game the first player's filled categories minus the
\* second player's equal current_player, which is the total number of
\* filled categories modulo 2; so while the game is not over the active
\* player has an open category, and score_category on it succeeds.
C20_TurnAlternation ==
    /\ FilledCount(1) - FilledCount(2) = current_player
    /\ current_player = (FilledCount(1) + FilledCount(2)) % 2
    /\ ~game_over =>
          \E c \in Categories :
              /\ players[Active].scorecard[c] = None
              /\ ENABLED (score_category(c) /\ result' = "True")

\* The first player has just filled the last category of their card and
\* the second player, now active, still has one open.
C20_Witness ==
    /\ result = "True"
    /\ ~game_over
    /\ current_player = 1
    /\ FilledCount(1) = Len(CategoryOrder)
    /\ FilledCount(2) = Len(CategoryOrder) - 1

\* C22: score_category, whether it returns True or False, leaves dice and
\* previous_dice as they are, so a turn starts (rolls_left = 3 after a score)
\* with the dice whose score the previous player recorded; dice and
\* previous_dice change only in a roll_dice that has a roll left.
C22_DiceCarryOver ==
    [][/\ result' \in {"True", "False"} => UNCHANGED <<dice, previous_dice>>
       /\ result' = "True" =>
             /\ rolls_left' = RollsPerTurn
             /\ \E c \in Categories :
                   /\ players[Active].scorecard[c] = None
                   /\ players'[Active].scorecard[c] = Some(calculate_score(c, dice'))
       /\ (dice' # dice \/ previous_dice' # previous_dice) =>
             /\ rolls_left > 0
             /\ rolls_left' = rolls_left - 1
             /\ previous_dice' = dice
             /\ result' = "None"]_vars

\* The second player's turn starts on the 1,2,3,4,5 that the first player
\* rolled and recorded as chance.
C22_Witness ==
    /\ result = "True"
    /\ rolls_left = RollsPerTurn
    /\ current_player = 1
    /\ dice = <<1, 2, 3, 4, 5>>
    /\ previous_dice = <<1, 1, 1, 1, 1>>
    /\ players[1].scorecard["chance"] = Some(15)

\* C21: in a two-player game game_over becomes true in the step of the 26th
\* successful score_category and in no earlier step, and that step leaves
\* current_player at 0 and rolls_left at 3; every successful score_category
\* fills one more of the 26 entries, so there are never more than 26 of
\* them; and if the players keep recording their open categories the game
\* is eventually over.
C21_GameLength ==
    /\ [](game_over <=> TurnsTaken = 26)
    /\ [](TurnsTaken <= 26)
    /\ [][/\ result' = "True" => TurnsTaken' = TurnsTaken + 1
          /\ result' # "True" => TurnsTaken' = TurnsTaken
          /\ game_over' # game_over =>
                /\ ~game_over
                /\ result' = "True"
                /\ TurnsTaken = 25
                /\ TurnsTaken' = 26
                /\ current_player' = 0
                /\ rolls_left' = 3]_vars
    /\ <>game_over

\* The 26th category has just been recorded and the game is over.
C21_Witness ==
    /\ game_over
    /\ result = "True"
    /\ TurnsTaken = 26
    /\ current_player = 0
    /\ rolls_left = 3

====
